---- MODULE Spec2Model ----
(***************************************************************************)
(* IntlProvider of use-intl (packages/use-intl/src/IntlProvider.tsx).      *)
(*                                                                         *)
(* A JavaScript string is the sequence of its characters, so that          *)
(* String.prototype.includes, Array.prototype.join and template literals   *)
(* are computed character by character.  A JavaScript value is a record    *)
(* [t, v]: t is its kind and v its payload (the characters of a string,    *)
(* the entries of an object in insertion order, the elements of an array). *)
(***************************************************************************)
EXTENDS Naturals, Sequences, FiniteSets

VARIABLES
  dev,       \* the build flag __DEV__
  dict,      \* the content of the messages object the host application holds
  props,     \* the props of the latest render (references, compared by identity)
  phase,     \* "initial" (never rendered), "mounted", "crashed" (an effect threw)
  deps,      \* the dependency array [messages, onError] of the previous render
  pending,   \* the effect callback React holds and has not run yet
  context,   \* the value handed to IntlContext.Provider by the latest render
  calls,     \* the invocations of onError so far: the callback and its IntlError
  console,   \* what defaultOnError wrote with console.error
  labels,    \* invalidKeyLabels of the latest validation pass
  passes,    \* validation passes (runs of the effect) so far
  renders,   \* renders so far
  fallback   \* the latest call of context.getMessageFallback by a consumer

vars == <<dev, dict, props, phase, deps, pending, context, calls, console,
          labels, passes, renders, fallback>>

-----------------------------------------------------------------------------
(* Bounds of the model.                                                    *)

\* entries (object properties and array elements) of a messages tree
MaxNodes == 3
\* entries of a messages tree in the specifications with several renders
MaxRenderNodes == 1
\* renders of one provider instance
MaxRenders == 3

-----------------------------------------------------------------------------
(* JavaScript values.                                                      *)

Undefined == [t |-> "undefined", v |-> <<>>]
Null == [t |-> "null", v |-> <<>>]
Str(s) == [t |-> "string", v |-> s]
Obj(entries) == [t |-> "object", v |-> entries]
Arr(elements) == [t |-> "array", v |-> elements]
Entry(key, value) == [k |-> key, v |-> value]

\* typeof: null and arrays are "object"
typeof(x) ==
  CASE x.t = "undefined" -> "undefined"
    [] x.t = "string" -> "string"
    [] OTHER -> "object"

\* ToBoolean of undefined, null, a string, an object or an array
truthy(x) ==
  CASE x.t \in {"undefined", "null"} -> FALSE
    [] x.t = "string" -> x.v # <<>>
    [] OTHER -> TRUE

\* key.includes('.'), the search string being the one character c
\* (a variant that looks at the first character only)
includesMutantFirst(s, c) == Len(s) > 0 /\ s[1] = c
includes(s, c) == \E i \in 1..Len(s) : s[i] = c

\* parts.filter((part) => part != null): undefined and null are dropped
RECURSIVE filterNotNull(_)
filterNotNull(parts) ==
  IF parts = <<>> THEN <<>>
  ELSE IF Head(parts).t \in {"undefined", "null"} THEN filterNotNull(Tail(parts))
  ELSE <<Head(parts)>> \o filterNotNull(Tail(parts))

\* strings.join(sep), every element a string (a sequence of characters)
RECURSIVE join(_, _)
join(strings, sep) ==
  IF strings = <<>> THEN <<>>
  ELSE IF Len(strings) = 1 THEN strings[1]
  ELSE strings[1] \o sep \o join(Tail(strings), sep)

\* the payloads of a sequence of string values
RECURSIVE payloads(_)
payloads(parts) ==
  IF parts = <<>> THEN <<>> ELSE <<Head(parts).v>> \o payloads(Tail(parts))

-----------------------------------------------------------------------------
(* Object.entries: an object's own properties are enumerated with the      *)
(* array-index keys first, ascending, then the other keys in insertion     *)
(* order; an array's are its indices, ascending.                           *)

Digits == <<"0", "1", "2", "3", "4", "5", "6", "7", "8", "9">>
DigitVal(c) == CHOOSE n \in 0..9 : Digits[n + 1] = c
IsDigit(c) == \E n \in 0..9 : Digits[n + 1] = c

\* s < u for two strings of decimal digits of one length
RECURSIVE DigitsLess(_, _)
DigitsLess(s, u) ==
  IF s = <<>> THEN FALSE
  ELSE IF s[1] # u[1] THEN DigitVal(s[1]) < DigitVal(u[1])
  ELSE DigitsLess(Tail(s), Tail(u))

\* a canonical numeric string below 2^32 - 1
IsArrayIndex(key) ==
  /\ Len(key) >= 1
  /\ \A i \in 1..Len(key) : IsDigit(key[i])
  /\ Len(key) = 1 \/ key[1] # "0"
  /\ \/ Len(key) < 10
     \/ /\ Len(key) = 10
        /\ DigitsLess(key, <<"4", "2", "9", "4", "9", "6", "7", "2", "9", "5">>)

\* numeric order of two array-index keys
IndexLess(a, b) == Len(a) < Len(b) \/ (Len(a) = Len(b) /\ DigitsLess(a, b))

\* the decimal digits of n
RECURSIVE ToString(_)
ToString(n) ==
  IF n < 10 THEN <<Digits[n + 1]>>
  ELSE ToString(n \div 10) \o <<Digits[(n % 10) + 1]>>

\* the entries with array-index keys, sorted ascending by insertion
RECURSIVE InsertByIndex(_, _), SortByIndex(_)
InsertByIndex(e, sorted) ==
  IF sorted = <<>> THEN <<e>>
  ELSE IF IndexLess(e.k, Head(sorted).k) THEN <<e>> \o sorted
  ELSE <<Head(sorted)>> \o InsertByIndex(e, Tail(sorted))
SortByIndex(entries) ==
  IF entries = <<>> THEN <<>>
  ELSE InsertByIndex(Head(entries), SortByIndex(Tail(entries)))

IsIndexEntry(e) == IsArrayIndex(e.k)
IsNamedEntry(e) == ~IsArrayIndex(e.k)

\* (a variant that enumerates every key in insertion order)
ObjectEntriesMutantInsertion(x) ==
  IF x.t = "array"
  THEN [i \in 1..Len(x.v) |-> Entry(ToString(i - 1), x.v[i])]
  ELSE x.v
ObjectEntries(x) ==
  IF x.t = "array"
  THEN [i \in 1..Len(x.v) |-> Entry(ToString(i - 1), x.v[i])]
  ELSE SortByIndex(SelectSeq(x.v, IsIndexEntry)) \o SelectSeq(x.v, IsNamedEntry)

\* Object.entries(null) and Object.entries(undefined) throw a TypeError
EntriesThrows(x) == x.t \in {"undefined", "null"}

-----------------------------------------------------------------------------
(* validateMessagesSegment.                                                *)

AtOpen == <<" ", "(", "a", "t", " ">>
AtClose == <<")">>

\* let keyLabel = key; if (parentPath) keyLabel += ` (at ${parentPath})`;
keyLabel(key, parentPath) ==
  IF truthy(parentPath) THEN key \o AtOpen \o parentPath.v \o AtClose ELSE key

\* [parentPath, key].filter((part) => part != null).join('.')
childPath(parentPath, key) ==
  Str(join(payloads(filterNotNull(<<parentPath, Str(key)>>)), <<".">>))

\* if (key.includes('.')) invalidKeyLabels.push(keyLabel)
pushIfInvalid(acc, key, parentPath) ==
  IF includes(key, ".")
  THEN [acc EXCEPT !.invalidKeyLabels = Append(@, keyLabel(key, parentPath))]
  ELSE acc

\* if (typeof messageOrMessages === 'object')
isNested(messageOrMessages) == typeof(messageOrMessages) = "object"

\* acc is the array invalidKeyLabels the walk appends to, and whether the
\* walk has thrown; after a throw nothing more is visited.
RECURSIVE validateMessagesSegment(_, _, _), forEachEntry(_, _, _, _)
validateMessagesSegment(messagesPart, acc, parentPath) ==
  IF EntriesThrows(messagesPart) THEN [acc EXCEPT !.threw = TRUE]
  ELSE forEachEntry(ObjectEntries(messagesPart), 1, acc, parentPath)
forEachEntry(entries, i, acc, parentPath) ==
  IF i > Len(entries) \/ acc.threw THEN acc
  ELSE LET key == entries[i].k
           messageOrMessages == entries[i].v
           pushed == pushIfInvalid(acc, key, parentPath)
           walked == IF isNested(messageOrMessages)
                     THEN validateMessagesSegment(messageOrMessages, pushed,
                                                  childPath(parentPath, key))
                     ELSE pushed
       IN forEachEntry(entries, i + 1, walked, parentPath)

-----------------------------------------------------------------------------
(* validateMessages.                                                       *)

Preamble ==
  <<"Namespace keys can not contain the character \".\" as this is used to express nesting. Please remove it or replace it with another character.\n\n">>
InvalidWord == <<"I", "n", "v", "a", "l", "i", "d", " ">>
KeyWord == <<"k", "e", "y">>
KeysWord == <<"k", "e", "y", "s">>
ColonSpace == <<":", " ">>
CommaSpace == <<",", " ">>

\* invalidKeyLabels.length === 1 ? 'key' : 'keys'
\* (a variant with the two words swapped)
pluralWordMutantSwapped(n) == IF n = 1 THEN KeysWord ELSE KeyWord
pluralWord(n) == IF n = 1 THEN KeyWord ELSE KeysWord

\* new IntlError(IntlErrorCode.INVALID_KEY, `...Invalid ${...}: ${...join(', ')}`)
invalidKeyError(invalidKeyLabels) ==
  [code |-> "INVALID_KEY",
   message |-> Preamble \o InvalidWord \o pluralWord(Len(invalidKeyLabels))
               \o ColonSpace \o join(invalidKeyLabels, CommaSpace)]

\* the errors validateMessages hands to onError
\* (a variant that reports each key by itself)
reportedMutantPerKey(invalidKeyLabels) ==
  [i \in 1..Len(invalidKeyLabels) |-> invalidKeyError(<<invalidKeyLabels[i]>>)]
reported(invalidKeyLabels) ==
  IF Len(invalidKeyLabels) > 0 THEN <<invalidKeyError(invalidKeyLabels)>> ELSE <<>>

\* One run of validateMessages on the value of the messages prop: the labels
\* collected, whether a TypeError escaped, and the errors handed to onError.
validateMessages(messages) ==
  IF ~truthy(messages)
  THEN [invalidKeyLabels |-> <<>>, threw |-> FALSE, errors |-> <<>>]
  ELSE LET walk == validateMessagesSegment(
                     messages, [invalidKeyLabels |-> <<>>, threw |-> FALSE], Undefined)
       IN [invalidKeyLabels |-> walk.invalidKeyLabels,
           threw |-> walk.threw,
           errors |-> IF walk.threw THEN <<>> ELSE reported(walk.invalidKeyLabels)]

-----------------------------------------------------------------------------
(* defaultGetMessageFallback and the resolved callbacks.                   *)

\* [namespace, key].filter((part) => part != null).join('.')
\* (a variant without the filter: join renders undefined and null as "")
defaultGetMessageFallbackMutantNoFilter(namespace, key) ==
  join(<<IF namespace.t = "string" THEN namespace.v ELSE <<>>, key>>, <<".">>)
defaultGetMessageFallback(namespace, key) ==
  join(payloads(filterNotNull(<<namespace, Str(key)>>)), <<".">>)

\* onError = defaultOnError, getMessageFallback = defaultGetMessageFallback
resolve(given, default) == IF given = "absent" THEN default ELSE given

\* what a custom getMessageFallback returns is the host's business
CustomFallbackResult == <<"?">>

-----------------------------------------------------------------------------
(* The host application's inputs.                                          *)

Keys == { <<"a", ".", "b">>, <<"c", ".", "d">>, <<"g">>, <<>>, <<"1">> }
Leaves == { Str(<<"x", ".", "y">>), Null }
MessagesRefs == {"undefined", "m1", "m2"}
OnErrorRefs == {"absent", "cb1", "cb2"}
FallbackRefs == {"absent", "customFallback"}
Namespaces == { Undefined, Null, Str(<<>>), Str(<<"g">>) }

\* the values whose subtree holds exactly n entries: the leaves and the
\* empty containers, then the objects and arrays of n entries in all
RECURSIVE ValuesOfSize(_), ObjEntries(_, _), ArrElems(_)
ValuesOfSize(n) ==
  IF n = 0 THEN Leaves \cup { Obj(<<>>), Arr(<<>>) }
  ELSE { Obj(es) : es \in ObjEntries(n, Keys) } \cup { Arr(vs) : vs \in ArrElems(n) }
ObjEntries(n, avail) ==
  IF n = 0 THEN { <<>> }
  ELSE UNION { UNION { { <<Entry(k, v)>> \o rest :
                          v \in ValuesOfSize(s),
                          rest \in ObjEntries(n - 1 - s, avail \ {k}) }
                       : s \in 0..(n - 1) } : k \in avail }
ArrElems(n) ==
  IF n = 0 THEN { <<>> }
  ELSE UNION { { <<v>> \o rest : v \in ValuesOfSize(s), rest \in ArrElems(n - 1 - s) }
               : s \in 0..(n - 1) }

\* dict is an object of at most max entries, keys unique within a level
DictUpTo(max) ==
  \E n \in 0..max :
    IF n = 0 THEN dict = Obj(<<>>)
    ELSE \E k \in Keys, s \in 0..(n - 1) :
           \E v \in ValuesOfSize(s), rest \in ObjEntries(n - 1 - s, Keys \ {k}) :
             dict = Obj(<<Entry(k, v)>> \o rest)

\* the value behind a messages reference: m1 and m2 are two objects of the
\* same content (the host rebuilt the object), "undefined" is no messages
deref(m) == IF m = "undefined" THEN Undefined ELSE dict

-----------------------------------------------------------------------------
(* IntlProvider.                                                           *)

NoProps == [messages |-> "none", onError |-> "none", getMessageFallback |-> "none"]
NoEffect == [messages |-> "none", onError |-> "none"]
NoFallback == [fn |-> "none", namespace |-> Undefined, key |-> <<>>, result |-> <<>>]

\* React schedules an effect on the first render, and on a later one when
\* some dependency is not Object.is-equal to the previous render's
\* (a variant with [messages] as the dependency array)
depsChangedMutantMessagesOnly(prev, next) == prev[1] # next[1]
depsChanged(prev, next) == \E i \in 1..Len(next) : prev[i] # next[i]

\* if (__DEV__) { useEffect(..., [messages, onError]) }
\* (a variant that registers the effect in every build)
effectRunsMutantAlwaysDev(isDev, first, prev, next) == first \/ depsChanged(prev, next)
effectRuns(isDev, first, prev, next) == isDev /\ (first \/ depsChanged(prev, next))

\* value={{...contextValues, messages, onError, getMessageFallback}}
contextValue(m, cb, gmf) ==
  [messages |-> m,
   onError |-> resolve(cb, "defaultOnError"),
   getMessageFallback |-> resolve(gmf, "defaultGetMessageFallback")]

InitCommon ==
  /\ props = NoProps
  /\ phase = "initial"
  /\ deps = <<>>
  /\ pending = NoEffect
  /\ context = NoProps
  /\ calls = <<>>
  /\ console = <<>>
  /\ labels = <<>>
  /\ passes = 0
  /\ renders = 0
  /\ fallback = NoFallback

\* One call of IntlProvider with props (m, cb, gmf): it hands the effect
\* callback, which closes over messages and onError, to useEffect and returns
\* the provider element.  React has run the effect of the previous render
\* before it renders again.
Render(m, cb, gmf) ==
  /\ phase # "crashed"
  /\ pending = NoEffect
  /\ renders < MaxRenders
  /\ LET onError == resolve(cb, "defaultOnError")
         next == <<m, onError>>
         run == effectRuns(dev, phase = "initial", deps, next)
     IN /\ props' = [messages |-> m, onError |-> cb, getMessageFallback |-> gmf]
        /\ context' = contextValue(m, cb, gmf)
        /\ renders' = renders + 1
        /\ deps' = IF dev THEN next ELSE deps
        /\ pending' = IF run THEN [messages |-> m, onError |-> onError] ELSE NoEffect
        /\ phase' = "mounted"
  /\ UNCHANGED <<dev, dict, calls, console, labels, passes, fallback>>

\* React runs the effect callback after the render is committed:
\* validateMessages(), whose TypeError, if any, takes the tree down.
RunEffect ==
  /\ pending # NoEffect
  /\ LET pass == validateMessages(deref(pending.messages))
         made == [i \in 1..Len(pass.errors) |->
                    [fn |-> pending.onError, error |-> pass.errors[i]]]
     IN /\ passes' = passes + 1
        /\ labels' = pass.invalidKeyLabels
        /\ calls' = calls \o made
        /\ console' = IF pending.onError = "defaultOnError"
                      THEN console \o pass.errors ELSE console
        /\ phase' = IF pass.threw THEN "crashed" ELSE phase
  /\ pending' = NoEffect
  /\ UNCHANGED <<dev, dict, props, deps, context, renders, fallback>>

\* A consumer below the provider calls context.getMessageFallback
CallFallback(namespace, key) ==
  /\ phase = "mounted"
  /\ fallback' = [fn |-> context.getMessageFallback,
                  namespace |-> namespace,
                  key |-> key,
                  result |-> IF context.getMessageFallback = "defaultGetMessageFallback"
                             THEN defaultGetMessageFallback(namespace, key)
                             ELSE CustomFallbackResult]
  /\ UNCHANGED <<dev, dict, props, phase, deps, pending, context, calls, console,
                 labels, passes, renders>>

\* The first render of a provider in a development build, and its effect.
Mount ==
  /\ phase = "initial"
  /\ \E m \in {"undefined", "m1"} : Render(m, "cb1", "absent")

Init == dev = TRUE /\ DictUpTo(MaxNodes) /\ InitCommon
Next == Mount \/ RunEffect
Spec == Init /\ [][Next]_vars

\* Any sequence of renders, in a development or a production build.
Rerender == \E m \in MessagesRefs, cb \in OnErrorRefs : Render(m, cb, "absent")

InitRender == dev \in BOOLEAN /\ DictUpTo(MaxRenderNodes) /\ InitCommon
NextRender == Rerender \/ RunEffect
SpecRender == InitRender /\ [][NextRender]_vars

\* Renders with either callback supplied or not, and consumers' fallback
\* calls, which may fall between a render and its effect; the dictionary has
\* at most one entry.
RenderAny ==
  \E m \in {"undefined", "m1"}, cb \in OnErrorRefs, gmf \in FallbackRefs : Render(m, cb, gmf)
Consume == \E ns \in Namespaces, key \in {<<"k">>, <<>>} : CallFallback(ns, key)

InitFallback == dev \in BOOLEAN /\ DictUpTo(1) /\ InitCommon
NextFallback == RenderAny \/ Consume \/ RunEffect
SpecFallback == InitFallback /\ [][NextFallback]_vars

-----------------------------------------------------------------------------
(* What the specification says of a messages dictionary, stated on the     *)
(* dictionary itself: its keys are addressed by their paths (the keys from *)
(* the root down), without reference to the walk above.                    *)

HasDot(key) == \E i \in 1..Len(key) : key[i] = "."
Last(p) == p[Len(p)]
Ancestors(p) == SubSeq(p, 1, Len(p) - 1)
StartsWith(s, prefix) == Len(s) >= Len(prefix) /\ SubSeq(s, 1, Len(prefix)) = prefix
EndsWith(s, suffix) ==
  Len(s) >= Len(suffix) /\ SubSeq(s, Len(s) - Len(suffix) + 1, Len(s)) = suffix

\* a dictionary as the type AbstractIntlMessages has it: every value is a
\* string or again such a dictionary
RECURSIVE IsMessages(_)
IsMessages(x) ==
  /\ x.t = "object"
  /\ \A i \in 1..Len(x.v) : x.v[i].v.t = "string" \/ IsMessages(x.v[i].v)

\* the paths of all keys, descending into nested dictionaries only
RECURSIVE DictPaths(_)
DictPaths(x) ==
  IF x.t # "object" THEN {}
  ELSE UNION { {<<x.v[i].k>>} \cup { <<x.v[i].k>> \o p : p \in DictPaths(x.v[i].v) }
               : i \in 1..Len(x.v) }

Offending(x) == { p \in DictPaths(x) : HasDot(Last(p)) }

\* the dictionary a path leads to
RECURSIVE DictAt(_, _)
DictAt(x, p) ==
  IF p = <<>> THEN x
  ELSE DictAt(x.v[CHOOSE i \in 1..Len(x.v) : x.v[i].k = Head(p)].v, Tail(p))

InsertionRank(level, key) == CHOOSE i \in 1..Len(level.v) : level.v[i].k = key

\* key a was inserted into the level before key b
InsertedBefore(level, a, b) == InsertionRank(level, a) < InsertionRank(level, b)

\* key a is enumerated before key b: array-index keys first, ascending, then
\* the other keys as inserted
EnumeratedBefore(level, a, b) ==
  IF IsArrayIndex(a) /\ IsArrayIndex(b) THEN IndexLess(a, b)
  ELSE IF IsArrayIndex(a) # IsArrayIndex(b) THEN IsArrayIndex(a)
  ELSE InsertedBefore(level, a, b)

\* path p comes before path q in the depth-first pre-order of x in which the
\* keys of a level are ordered by KeyBefore
PathBefore(x, p, q, KeyBefore(_, _, _)) ==
  \E i \in 1..Len(q) :
    /\ \A j \in 1..(i - 1) : j <= Len(p) /\ p[j] = q[j]
    /\ \/ i = Len(p) + 1
       \/ /\ i <= Len(p)
          /\ p[i] # q[i]
          /\ KeyBefore(DictAt(x, SubSeq(q, 1, i - 1)), p[i], q[i])

\* the offending paths of x in that pre-order
PreOrder(x, KeyBefore(_, _, _)) ==
  LET off == Offending(x)
  IN [i \in 1..Cardinality(off) |->
        CHOOSE p \in off :
          Cardinality({ q \in off : PathBefore(x, q, p, KeyBefore) }) = i - 1]

\* strings joined by sep, built from the right
RECURSIVE Joined(_, _)
Joined(strings, sep) ==
  IF Len(strings) = 0 THEN <<>>
  ELSE IF Len(strings) = 1 THEN strings[1]
  ELSE Joined(SubSeq(strings, 1, Len(strings) - 1), sep) \o sep \o strings[Len(strings)]

Suffixed(p) == Last(p) \o <<" ", "(", "a", "t", " ">> \o Joined(Ancestors(p), <<".">>) \o <<")">>

\* the label as the specification words it: suffixed whenever the key has an ancestor
ClaimedLabel(p) == IF Len(p) = 1 THEN Last(p) ELSE Suffixed(p)

\* the label the walk gives: suffixed when the joined ancestor path is not empty
GivenLabel(p) == IF Joined(Ancestors(p), <<".">>) = <<>> THEN Last(p) ELSE Suffixed(p)

\* label is the label of some key named key
HasKeyPart(label, key) ==
  \/ label = key
  \/ StartsWith(label, key \o <<" ", "(", "a", "t", " ">>)

\* the first render ran a validation pass over dict
WalkedDict == passes = 1 /\ renders = 1 /\ props.messages = "m1"

\* the onError a render's props resolve to
ResolvedOnError(ps) == IF ps.onError = "absent" THEN "defaultOnError" ELSE ps.onError
ResolvedFallback(ps) ==
  IF ps.getMessageFallback = "absent"
  THEN "defaultGetMessageFallback" ELSE ps.getMessageFallback

-----------------------------------------------------------------------------
(* The claims.                                                             *)

\* C1: one validation pass over a messages dictionary collects exactly one
\* label per key, at any depth, whose name contains '.', and none for any
\* other key; the list is empty iff no key contains '.', and a '.' inside a
\* leaf value (every string leaf of the model is "x.y") gives no label.
C1_OneLabelPerDottedKey ==
  (WalkedDict /\ IsMessages(dict)) =>
    /\ phase = "mounted"
    /\ Len(labels) = Cardinality(Offending(dict))
    /\ \A key \in Keys :
         Cardinality({ i \in 1..Len(labels) : HasKeyPart(labels[i], key) })
           = Cardinality({ p \in Offending(dict) : Last(p) = key })
    /\ (labels = <<>>) <=> (\A p \in DictPaths(dict) : ~HasDot(Last(p)))

\* C1 witness: a dictionary with dotted keys at two depths, an undotted key
\* and a string leaf has been walked.
C1_Witness ==
  /\ WalkedDict /\ IsMessages(dict)
  /\ \E p, q \in Offending(dict) : Len(p) = 1 /\ Len(q) = 2
  /\ \E p \in DictPaths(dict) : ~HasDot(Last(p))
  /\ Len(labels) = 2

\* C2: the label of an offending key is the key itself at the root level and
\* the key followed by " (at <parentPath>)" whenever it has an ancestor,
\* parentPath being all ancestor keys joined by '.', also for an ancestor key
\* that is the empty string or contains '.'.
C2_LabelSuffixedUnderAnyAncestor ==
  (WalkedDict /\ IsMessages(dict)) =>
    labels = [i \in 1..Cardinality(Offending(dict)) |->
                ClaimedLabel(PreOrder(dict, EnumeratedBefore)[i])]

\* C3 as amended: the label list is in the depth-first pre-order of the
\* dictionary in which each level is taken in its enumeration order
\* (array-index keys ascending, then the other keys in insertion order).
C3_PreOrderOfEnumeration ==
  (WalkedDict /\ IsMessages(dict)) =>
    labels = [i \in 1..Cardinality(Offending(dict)) |->
                GivenLabel(PreOrder(dict, EnumeratedBefore)[i])]

\* C3 as stated: the label list is in the depth-first pre-order of the
\* dictionary in which each level is taken in its insertion order.
C3_PreOrderOfInsertion ==
  (WalkedDict /\ IsMessages(dict)) =>
    labels = [i \in 1..Cardinality(Offending(dict)) |->
                GivenLabel(PreOrder(dict, InsertedBefore)[i])]

\* C3 witness: a dictionary whose enumeration order differs from its
\* insertion order has been walked and gave labels from two subtrees.
C3_Witness ==
  /\ WalkedDict /\ IsMessages(dict)
  /\ Len(labels) >= 2
  /\ PreOrder(dict, EnumeratedBefore) # PreOrder(dict, InsertedBefore)

\* C4: a validation pass invokes onError exactly once, with one INVALID_KEY
\* error whose message carries all collected labels joined by ", ", when the
\* label list is not empty, and not at all when messages is absent, when the
\* dictionary is empty or when no key contains '.'.
C4_OneErrorPerPass ==
  (passes = 1 /\ renders = 1 /\ (props.messages = "undefined" \/ IsMessages(dict))) =>
    LET off == IF props.messages = "undefined" THEN {} ELSE Offending(dict)
    IN /\ Len(calls) = (IF off = {} THEN 0 ELSE 1)
       /\ off # {} =>
            /\ calls[1].fn = ResolvedOnError(props)
            /\ calls[1].error.code = "INVALID_KEY"
            /\ Len(labels) = Cardinality(off)
            /\ EndsWith(calls[1].error.message,
                        <<":", " ">> \o Joined(labels, <<",", " ">>))

\* C4 witness: a pass that collected three labels has called onError once.
C4_Witness ==
  /\ WalkedDict /\ IsMessages(dict)
  /\ Len(labels) = 3
  /\ Len(calls) = 1

\* C5: values that are arrays are leaves: the walk does not descend into
\* them, so the labels of a pass that completes are those of the keys
\* reached through nested dictionaries alone.
C5_ArraysAreLeaves ==
  (WalkedDict /\ phase = "mounted") =>
    labels = [i \in 1..Cardinality(Offending(dict)) |->
                GivenLabel(PreOrder(dict, EnumeratedBefore)[i])]

\* C6: a validation pass never throws, whatever the leaf values are: the
\* provider is never torn down by an error escaping the effect.
C6_PassNeverThrows == phase # "crashed"

\* C7: in development mode a validation pass runs after the first render and
\* after exactly those later renders whose messages or onError reference
\* differs from the previous render's; a render with both unchanged runs no
\* pass and calls onError no further time.  A render leaves a pass to run
\* exactly when a reference changed, a pass runs only when one is left to
\* run, once, and before the next render; nothing else calls onError.
C7_PassIffDepsChanged ==
  [][/\ (dev /\ renders' = renders + 1) =>
          LET changed == \/ phase = "initial"
                         \/ props'.messages # props.messages
                         \/ ResolvedOnError(props') # ResolvedOnError(props)
          IN /\ pending = NoEffect
             /\ (pending' # NoEffect) <=> changed
             /\ pending' # NoEffect =>
                  pending' = [messages |-> props'.messages,
                              onError |-> ResolvedOnError(props')]
             /\ passes' = passes
     /\ passes' # passes =>
          /\ pending # NoEffect /\ pending' = NoEffect
          /\ passes' = passes + 1 /\ renders' = renders
     /\ passes' = passes =>
          (calls' = calls /\ console' = console /\ labels' = labels)]_vars

\* C7 witness: a dictionary with an invalid key was rendered three times in
\* development mode and validated once, no pass being left to run.
C7_Witness ==
  /\ dev /\ renders = 3 /\ passes = 1 /\ pending = NoEffect
  /\ Offending(dict) # {}
  /\ props.messages = "m1"
  /\ Len(calls) + Len(console) = 1

\* C8: in a production build no validation pass ever runs and onError is
\* never invoked, over any renders and whatever the dictionary holds, and
\* the context value is what the props determine, as in development mode.
C8_NoValidationInProduction ==
  /\ ~dev => /\ pending = NoEffect /\ passes = 0
             /\ calls = <<>> /\ console = <<>> /\ phase # "crashed"
  /\ phase # "initial" =>
       context = [messages |-> props.messages,
                  onError |-> ResolvedOnError(props),
                  getMessageFallback |-> ResolvedFallback(props)]

\* C8 witness: a production build rendered a dictionary with an invalid key
\* twice, under two references.
C8_Witness ==
  /\ ~dev /\ renders >= 2
  /\ Offending(dict) # {}
  /\ props.messages = "m2"

\* C9: the message says "Invalid key: " exactly when one key was found and
\* "Invalid keys: " exactly when more than one was, counting the keys of all
\* nesting levels.
C9_KeyOrKeys ==
  (WalkedDict /\ IsMessages(dict) /\ Len(calls) > 0) =>
    LET n == Cardinality(Offending(dict))
        message == calls[1].error.message
        head == Preamble \o <<"I", "n", "v", "a", "l", "i", "d", " ">>
    IN /\ StartsWith(message, head \o <<"k", "e", "y", ":", " ">>) <=> (n = 1)
       /\ StartsWith(message, head \o <<"k", "e", "y", "s", ":", " ">>) <=> (n > 1)

\* C9 witness: two invalid keys on different levels were reported.
C9_Witness ==
  /\ WalkedDict /\ IsMessages(dict) /\ Len(calls) = 1
  /\ \E p, q \in Offending(dict) : Len(p) = 1 /\ Len(q) = 2
  /\ Cardinality(Offending(dict)) = 2

\* C10: without a getMessageFallback prop the context exposes
\* defaultGetMessageFallback, which returns "<namespace>.<key>" for a given
\* namespace and the key alone for an absent one (undefined or null); a
\* supplied onError or getMessageFallback is exposed in place of the default.
C10_DefaultsAndFallback ==
  /\ phase # "initial" =>
       /\ context.getMessageFallback = ResolvedFallback(props)
       /\ context.onError = ResolvedOnError(props)
  /\ fallback.fn = "defaultGetMessageFallback" =>
       fallback.result = (IF fallback.namespace.t = "string"
                          THEN fallback.namespace.v \o <<".">> \o fallback.key
                          ELSE fallback.key)

\* C10 witness: the default fallback was called with a null namespace under
\* a supplied onError.
C10_Witness ==
  /\ fallback.fn = "defaultGetMessageFallback"
  /\ fallback.namespace = Null
  /\ fallback.key = <<"k">>
  /\ props.onError = "cb1"
  /\ props.getMessageFallback = "absent"

====
